---- MODULE Spec2Model ----
(***************************************************************************)
(* Model of the governance library: the access-control PolicyEngine        *)
(* (registration with stable priority ordering, deny-wins fail-closed      *)
(* evaluation, audit trace), the built-in policies and the default engine. *)
(***************************************************************************)
EXTENDS Integers, Sequences, FiniteSets, TLC

VARIABLES policies,    \* PolicyEngine.policies: the engine's internal sequence
          registered,  \* history: the policies in the order RegisterPolicy got them
          result,      \* value returned by the most recent call: <<>> or <<EvaluationResult>>
          invoked,     \* history: indices of the policies whose Evaluate was called by the most recent Evaluate
          hostCtx,     \* the host's RequestContext variable, passed by value to Evaluate
          heap,        \* Go heap of map[string]string objects, by address (0 is the nil map)
          rules,       \* ComplianceChecker.rules: the checker's internal sequence
          report,      \* value returned by the most recent checker call: <<>> or <<ComplianceReport>>
          checked,     \* history: indices of the rules whose Check was called by the most recent checker Evaluate
          bundles,     \* the host's RuleSet values, by bundle name
          added,       \* history: for each rule of the checker, the call that gave it and the rule as given
          comb,        \* the host's slice of sub-policies and its most recent call of a combinator-built policy
          threads      \* the goroutines calling Evaluate on a finalized engine or checker: each one's frame

engineVars == <<policies, registered, result, invoked>>
checkerVars == <<rules, report, checked, bundles, added>>

vars == <<policies, registered, result, invoked, hostCtx, heap,
          rules, report, checked, bundles, added, comb, threads>>

\* a program that has made no checker and called no combinator
NoChecker ==
    rules = <<>> /\ report = <<>> /\ checked = <<>> /\ bundles = <<>> /\ added = <<>>
NoCombinator == comb = <<>>
NoThreads == threads = <<>>

----------------------------------------------------------------------------
(* Bounds of the model *)

MaxPolicies == 3   \* registrations per engine in the general specification
MaxMaps == 2       \* map[string]string objects on the heap
MaxSubs == 3       \* sub-policies handed to a combinator
MaxThreads == 2    \* goroutines evaluating concurrently
MaxRules == 4      \* rules per checker in the general checker specification

----------------------------------------------------------------------------
(* Domain model *)

EffectAllow == 0
EffectDeny == 1

StepAllow == 0
StepDeny == 1
StepAbstain == 2

\* Effect.String: everything that is not EffectAllow renders as "Deny".
EffectString(e) == IF e = EffectAllow THEN "Allow" ELSE "Deny"

\* A *PolicyDecision is <<>> (nil) or <<d>>.
Nil == <<>>

PolicyDecision(effect, name, reason) ==
    << [Effect |-> effect, PolicyName |-> name, Reason |-> reason] >>

PolicyStep(name, outcome, reason) ==
    [PolicyName |-> name, Outcome |-> outcome, Reason |-> reason]

RequestContext(role, class, tags, verb, env, mfa) ==
    [Principal   |-> [ID |-> "p", Role |-> role, Department |-> "d"],
     Resource    |-> [ID |-> "r", Type |-> "database", Classification |-> class, Tags |-> tags],
     Action      |-> [Verb |-> verb],
     Environment |-> env,
     MFAVerified |-> mfa]

----------------------------------------------------------------------------
(* Built-in policies: the Evaluate closures *)

AdminFullAccessFnNeedsMFA(ctx) ==
    IF ctx.Principal.Role = "admin" /\ ctx.MFAVerified
    THEN PolicyDecision(EffectAllow, "AdminFullAccess", "Admin role has unrestricted access.")
    ELSE Nil

AdminFullAccessFn(ctx) ==
    IF ctx.Principal.Role = "admin"
    THEN PolicyDecision(EffectAllow, "AdminFullAccess", "Admin role has unrestricted access.")
    ELSE Nil

MFARequiredForRestrictedFn(ctx) ==
    IF ctx.Resource.Classification = "restricted" /\ ~ctx.MFAVerified
    THEN PolicyDecision(EffectDeny, "MFARequiredForRestricted", "MFA required to access restricted resources.")
    ELSE Nil

ProductionImmutabilityFnAllow(ctx) ==
    IF /\ ctx.Environment = "production"
       /\ ctx.Principal.Role # "admin"
       /\ (ctx.Action.Verb = "write" \/ ctx.Action.Verb = "delete")
    THEN PolicyDecision(EffectAllow, "ProductionImmutability", "Write/delete operations require admin role in production.")
    ELSE Nil

ProductionImmutabilityFn(ctx) ==
    IF /\ ctx.Environment = "production"
       /\ ctx.Principal.Role # "admin"
       /\ (ctx.Action.Verb = "write" \/ ctx.Action.Verb = "delete")
    THEN PolicyDecision(EffectDeny, "ProductionImmutability", "Write/delete operations require admin role in production.")
    ELSE Nil

AnalystReadOnlyFnRestrictedOnly(ctx) ==
    IF ctx.Principal.Role # "analyst" THEN Nil
    ELSE IF ctx.Action.Verb # "read"
    THEN PolicyDecision(EffectDeny, "AnalystReadOnly", "Analysts are limited to read-only access.")
    ELSE IF ctx.Resource.Classification = "restricted"
    THEN PolicyDecision(EffectDeny, "AnalystReadOnly", "Analysts cannot access confidential or restricted data.")
    ELSE PolicyDecision(EffectAllow, "AnalystReadOnly", "Analyst read access on non-sensitive resource allowed.")

AnalystReadOnlyFn(ctx) ==
    IF ctx.Principal.Role # "analyst" THEN Nil
    ELSE IF ctx.Action.Verb # "read"
    THEN PolicyDecision(EffectDeny, "AnalystReadOnly", "Analysts are limited to read-only access.")
    ELSE IF ctx.Resource.Classification = "restricted" \/ ctx.Resource.Classification = "confidential"
    THEN PolicyDecision(EffectDeny, "AnalystReadOnly", "Analysts cannot access confidential or restricted data.")
    ELSE PolicyDecision(EffectAllow, "AnalystReadOnly", "Analyst read access on non-sensitive resource allowed.")

EngineerAccessFnNoDefer(ctx) ==
    IF ctx.Principal.Role # "engineer" THEN Nil
    ELSE IF ctx.Environment = "dev" \/ ctx.Environment = "staging"
    THEN PolicyDecision(EffectAllow, "EngineerAccess", "Engineers have full access in non-production environments.")
    ELSE IF ctx.Environment = "production" /\ ctx.Action.Verb = "read"
    THEN PolicyDecision(EffectAllow, "EngineerAccess", "Engineers can read production resources.")
    ELSE Nil

EngineerAccessFn(ctx) ==
    IF ctx.Principal.Role # "engineer" THEN Nil
    ELSE IF ctx.Resource.Classification = "restricted" THEN Nil
    ELSE IF ctx.Environment = "dev" \/ ctx.Environment = "staging"
    THEN PolicyDecision(EffectAllow, "EngineerAccess", "Engineers have full access in non-production environments.")
    ELSE IF ctx.Environment = "production" /\ ctx.Action.Verb = "read"
    THEN PolicyDecision(EffectAllow, "EngineerAccess", "Engineers can read production resources.")
    ELSE Nil

----------------------------------------------------------------------------
(* Host-supplied policies (the constant policies of the test suite, and a  *)
(* policy whose decision carries an Effect that is neither constant).      *)

AlwaysAbstainFn(ctx) == Nil

FirstFn(ctx) == PolicyDecision(EffectAllow, "First", "first allow")

AlwaysDenyFn(ctx) == PolicyDecision(EffectDeny, "AlwaysDeny", "Always denied.")

EffectOther == 2

OtherEffectFn(ctx) == PolicyDecision(EffectOther, "OtherEffect", "effect 2")

\* A predicate value func(RequestContext) bool: the field it looks up and the
\* set its constructor captured.
NoPredicate == [field |-> "", set |-> {}]

\* A function value of type PolicyFn: the function and the variables its
\* closure captured (none for a plain function).
Fn(id) == [fn |-> id, name |-> "", policies |-> <<>>, predicate |-> NoPredicate]

\* Policy: the struct (Description plays no part in registration or
\* evaluation and is left out).
PolicyBy(name, version, author, priority, fn) ==
    [Name |-> name, Version |-> version, Author |-> author,
     Priority |-> priority, Evaluate |-> fn]

Policy(name, priority, fn) == PolicyBy(name, "1.0", "governance-team", priority, fn)

RECURSIVE PolicyFn(_, _)

InEnvironment(envs) == [field |-> "Environment", set |-> envs]
ForResourceType(types) == [field |-> "ResourceType", set |-> types]
ForRole(roles) == [field |-> "Role", set |-> roles]

\* calling a predicate value
Predicate(pred, ctx) ==
    CASE pred.field = "Environment"  -> ctx.Environment \in pred.set
      [] pred.field = "ResourceType" -> ctx.Resource.Type \in pred.set
      [] pred.field = "Role"         -> ctx.Principal.Role \in pred.set

\* what a combinator's Evaluate returns, with the indices of the sub-policies
\* it invoked
Returned(d, calls) == [d |-> d, calls |-> calls]

\* AllOf's loop, from sub-policy i on
RECURSIVE AllOfLoop(_, _, _, _, _, _)
AllOfLoop(name, ps, ctx, i, hasAbstain, calls) ==
    IF i > Len(ps)
    THEN IF hasAbstain
         THEN Returned(Nil, calls)
         ELSE Returned(PolicyDecision(EffectAllow, name, "AllOf: all sub-policies allowed."),
                       calls)
    ELSE LET p == ps[i]
             d == PolicyFn(p.Evaluate, ctx)
             called == Append(calls, i)
         IN  IF d = Nil
             THEN AllOfLoop(name, ps, ctx, i + 1, TRUE, called)
             ELSE IF d[1].Effect = EffectDeny
                  THEN Returned(PolicyDecision(EffectDeny, name,
                                    "AllOf denied by sub-policy " \o p.Name \o ": " \o d[1].Reason),
                                called)
                  ELSE AllOfLoop(name, ps, ctx, i + 1, hasAbstain, called)

AllOfFnAbstainAllows(name, ps, ctx) ==
    LET r == AllOfLoop(name, ps, ctx, 1, FALSE, <<>>)
    IN  IF r.d = Nil
        THEN Returned(PolicyDecision(EffectAllow, name, "AllOf: all sub-policies allowed."),
                      r.calls)
        ELSE r

\* the Evaluate closure AllOf returns
AllOfFn(name, ps, ctx) ==
    IF Len(ps) = 0
    THEN Returned(PolicyDecision(EffectAllow, name,
                                 "AllOf with zero sub-policies (vacuous truth)."), <<>>)
    ELSE AllOfLoop(name, ps, ctx, 1, FALSE, <<>>)

\* AnyOf's loop, from sub-policy i on; firstDeny is <<>> (nil) or
\* <<decision, name>>
RECURSIVE AnyOfLoop(_, _, _, _, _, _)
AnyOfLoop(name, ps, ctx, i, firstDeny, calls) ==
    IF i > Len(ps)
    THEN IF firstDeny # <<>>
         THEN Returned(PolicyDecision(EffectDeny, name,
                           "AnyOf denied by sub-policy " \o firstDeny[2] \o ": "
                               \o firstDeny[1].Reason),
                       calls)
         ELSE Returned(Nil, calls)
    ELSE LET p == ps[i]
             d == PolicyFn(p.Evaluate, ctx)
             called == Append(calls, i)
         IN  IF d = Nil
             THEN AnyOfLoop(name, ps, ctx, i + 1, firstDeny, called)
             ELSE IF d[1].Effect = EffectAllow
                  THEN Returned(PolicyDecision(EffectAllow, name,
                                    "AnyOf allowed by sub-policy " \o p.Name \o ": " \o d[1].Reason),
                                called)
                  ELSE AnyOfLoop(name, ps, ctx, i + 1,
                                 IF firstDeny = <<>> THEN <<d[1], p.Name>> ELSE firstDeny,
                                 called)

AnyOfFnDenyWins(name, ps, ctx) ==
    LET r == AnyOfLoop(name, ps, ctx, 1, <<>>, <<>>)
        refusing == {j \in 1..Len(ps) : /\ PolicyFn(ps[j].Evaluate, ctx) # Nil
                                        /\ PolicyFn(ps[j].Evaluate, ctx)[1].Effect # EffectAllow}
    IN  IF refusing = {} THEN r
        ELSE Returned(PolicyDecision(EffectDeny, name, "AnyOf denied"), r.calls)

\* the Evaluate closure AnyOf returns
AnyOfFn(name, ps, ctx) == AnyOfLoop(name, ps, ctx, 1, <<>>, <<>>)

\* NoneOf's loop, from sub-policy i on
RECURSIVE NoneOfLoop(_, _, _, _, _)
NoneOfLoop(name, ps, ctx, i, calls) ==
    IF i > Len(ps)
    THEN Returned(Nil, calls)
    ELSE LET p == ps[i]
             d == PolicyFn(p.Evaluate, ctx)
             called == Append(calls, i)
         IN  IF d # Nil /\ d[1].Effect = EffectAllow
             THEN Returned(PolicyDecision(EffectDeny, name,
                               "NoneOf blocked by sub-policy " \o p.Name \o ": " \o d[1].Reason),
                           called)
             ELSE NoneOfLoop(name, ps, ctx, i + 1, called)

NoneOfFnPropagatesDeny(name, ps, ctx) ==
    LET r == NoneOfLoop(name, ps, ctx, 1, <<>>)
    IN  IF r.d = Nil /\ \E j \in 1..Len(ps) : PolicyFn(ps[j].Evaluate, ctx) # Nil
        THEN Returned(PolicyDecision(EffectDeny, name, "NoneOf denied"), r.calls)
        ELSE r

\* the Evaluate closure NoneOf returns
NoneOfFn(name, ps, ctx) == NoneOfLoop(name, ps, ctx, 1, <<>>)

\* the Evaluate closure When returns; the wrapped policy is sub-policy 1
WhenFn(predicate, wrapped, ctx) ==
    IF ~Predicate(predicate, ctx)
    THEN Returned(Nil, <<>>)
    ELSE Returned(PolicyFn(wrapped.Evaluate, ctx), <<1>>)

\* PolicyFn: calling the function value stored in Policy.Evaluate.
PolicyFn(fn, ctx) ==
    CASE fn.fn = "AdminFullAccess"          -> AdminFullAccessFn(ctx)
      [] fn.fn = "MFARequiredForRestricted" -> MFARequiredForRestrictedFn(ctx)
      [] fn.fn = "ProductionImmutability"   -> ProductionImmutabilityFn(ctx)
      [] fn.fn = "AnalystReadOnly"          -> AnalystReadOnlyFn(ctx)
      [] fn.fn = "EngineerAccess"           -> EngineerAccessFn(ctx)
      [] fn.fn = "AlwaysAbstain"            -> AlwaysAbstainFn(ctx)
      [] fn.fn = "First"                    -> FirstFn(ctx)
      [] fn.fn = "AlwaysDeny"               -> AlwaysDenyFn(ctx)
      [] fn.fn = "OtherEffect"              -> OtherEffectFn(ctx)
      [] fn.fn = "AllOf"                    -> AllOfFn(fn.name, fn.policies, ctx).d
      [] fn.fn = "AnyOf"                    -> AnyOfFn(fn.name, fn.policies, ctx).d
      [] fn.fn = "NoneOf"                   -> NoneOfFn(fn.name, fn.policies, ctx).d
      [] fn.fn = "When"                     -> WhenFn(fn.predicate, fn.policies[1], ctx).d

\* the closure of a combinator: its function and captured variables
Closure(id, name, ps, predicate) ==
    [fn |-> id, name |-> name, policies |-> ps, predicate |-> predicate]

AllOf(name, ps) ==
    PolicyBy(name, "1.0", "governance-team", 0, Closure("AllOf", name, ps, NoPredicate))

AnyOf(name, ps) ==
    PolicyBy(name, "1.0", "governance-team", 0, Closure("AnyOf", name, ps, NoPredicate))

NoneOf(name, ps) ==
    PolicyBy(name, "1.0", "governance-team", 0, Closure("NoneOf", name, ps, NoPredicate))

WhenDefaultPriority(predicate, wrapped) ==
    PolicyBy(wrapped.Name, wrapped.Version, wrapped.Author, 0,
             Closure("When", "", <<wrapped>>, predicate))

When(predicate, wrapped) ==
    PolicyBy(wrapped.Name, wrapped.Version, wrapped.Author, wrapped.Priority,
             Closure("When", "", <<wrapped>>, predicate))

AdminFullAccess == Policy("AdminFullAccess", 0, Fn("AdminFullAccess"))
MFARequiredForRestricted == Policy("MFARequiredForRestricted", 0, Fn("MFARequiredForRestricted"))
ProductionImmutability == Policy("ProductionImmutability", 0, Fn("ProductionImmutability"))
AnalystReadOnly == Policy("AnalystReadOnly", 0, Fn("AnalystReadOnly"))
EngineerAccess == Policy("EngineerAccess", 0, Fn("EngineerAccess"))

----------------------------------------------------------------------------
(* PolicyEngine.RegisterPolicy: append, then sort.SliceStable by Priority   *)
(* descending.  For slices of at most 20 elements sort.SliceStable is a     *)
(* plain insertion sort driven by the less function.                        *)

LessUnstable(a, b) == a.Priority >= b.Priority

\* the less function handed to sort.SliceStable
Less(a, b) == a.Priority > b.Priority

Swap(s, i, j) == [s EXCEPT ![i] = s[j], ![j] = s[i]]

RECURSIVE BubbleLeft(_, _)
BubbleLeft(s, j) ==
    IF j > 1 /\ Less(s[j], s[j - 1])
    THEN BubbleLeft(Swap(s, j, j - 1), j - 1)
    ELSE s

RECURSIVE InsertionSort(_, _)
InsertionSort(s, i) ==
    IF i > Len(s) THEN s ELSE InsertionSort(BubbleLeft(s, i), i + 1)

SliceStable(s) == InsertionSort(s, 2)

RegisterPolicy(ps, p) == SliceStable(Append(ps, p))

PolicyCount(ps) == Len(ps)

----------------------------------------------------------------------------
(* PolicyEngine.Evaluate *)

IsDenyNever(decision) == FALSE

\* decision.Effect == EffectDeny
IsDeny(decision) == decision[1].Effect = EffectDeny

KeepLastAllow(firstAllow, decision) == decision

\* if firstAllow == nil { firstAllow = decision }
KeepFirstAllow(firstAllow, decision) ==
    IF firstAllow = Nil THEN decision ELSE firstAllow

DefaultAllow ==
    [Effect |-> EffectAllow, PolicyName |-> "default",
     Reason |-> "No policy explicitly granted access."]

DefaultDeny ==
    [Effect |-> EffectDeny, PolicyName |-> "default",
     Reason |-> "No policy explicitly granted access."]

EvaluationResult(decision, ctx, steps, calls) ==
    [Decision |-> decision,
     Trace    |-> [Context |-> ctx, Steps |-> steps],
     calls    |-> calls]

\* The loop over e.policies, from index i on, with the trace steps so far,
\* the recorded first Allow and the indices of the policies invoked so far.
RECURSIVE EvalLoop(_, _, _, _, _, _)
EvalLoop(ps, ctx, i, steps, firstAllow, calls) ==
    IF i > Len(ps)
    THEN IF firstAllow # Nil
         THEN EvaluationResult(firstAllow[1], ctx, steps, calls)
         ELSE EvaluationResult(DefaultDeny, ctx, steps, calls)
    ELSE LET policy   == ps[i]
             decision == PolicyFn(policy.Evaluate, ctx)
             called   == Append(calls, i)
         IN  IF decision = Nil
             THEN EvalLoop(ps, ctx, i + 1,
                           Append(steps, PolicyStep(policy.Name, StepAbstain, "")),
                           firstAllow, called)
             ELSE IF IsDeny(decision)
             THEN EvaluationResult(decision[1], ctx,
                           Append(steps, PolicyStep(policy.Name, StepDeny, decision[1].Reason)),
                           called)
             ELSE EvalLoop(ps, ctx, i + 1,
                           Append(steps, PolicyStep(policy.Name, StepAllow, decision[1].Reason)),
                           KeepFirstAllow(firstAllow, decision), called)

EvaluateBackwards(ps, ctx) ==
    EvalLoop([i \in 1..Len(ps) |-> ps[Len(ps) + 1 - i]], ctx, 1, <<>>, Nil, <<>>)

Evaluate(ps, ctx) == EvalLoop(ps, ctx, 1, <<>>, Nil, <<>>)

EvaluatedCountAllowsOnly(t) ==
    Len(SelectSeq(t.Steps, LAMBDA s : s.Outcome = StepAllow))

\* EvaluationTrace.EvaluatedCount: the steps that are not abstentions
EvaluatedCount(t) == Len(SelectSeq(t.Steps, LAMBDA s : s.Outcome # StepAbstain))

\* EvaluationTrace.AbstainCount
AbstainCount(t) == Len(t.Steps) - EvaluatedCount(t)

----------------------------------------------------------------------------
(* Inputs of the general engine specification *)

Priorities == {-1, 0, 1}

\* the Evaluate functions a host registers
HostFns == {"AlwaysAbstain", "First", "AlwaysDeny", "OtherEffect",
            "AdminFullAccess", "MFARequiredForRestricted"}

HostPolicies == {Policy(fn, pr, Fn(fn)) : fn \in HostFns, pr \in Priorities}

\* the map[string]string objects the host has made, all empty at first;
\* a map is the set of its <<key, value>> entries
InitHeap == [a \in 1..MaxMaps |-> {}]

Contexts ==
    { RequestContext("admin", "restricted", 1, "read", "production", FALSE),
      RequestContext("admin", "public", 1, "read", "production", TRUE),
      RequestContext("guest", "public", 1, "read", "dev", FALSE) }

----------------------------------------------------------------------------
(* The general engine: any registrations, any evaluations *)

Init ==
    /\ policies = <<>>
    /\ registered = <<>>
    /\ result = <<>>
    /\ invoked = <<>>
    /\ hostCtx = RequestContext("guest", "public", 1, "read", "dev", FALSE)
    /\ heap = InitHeap
    /\ NoChecker /\ NoCombinator /\ NoThreads

\* engine.RegisterPolicy(p); the call returns nothing
DoRegisterPolicy ==
    \E p \in HostPolicies :
        /\ Len(policies) < MaxPolicies
        /\ policies' = RegisterPolicy(policies, p)
        /\ registered' = Append(registered, p)
        /\ result' = <<>>
        /\ invoked' = <<>>
        /\ UNCHANGED <<hostCtx, heap, checkerVars, comb, threads>>

\* result := engine.Evaluate(ctx)
EvaluateCall(ctx) ==
    LET r == Evaluate(policies, ctx)
    IN  /\ hostCtx' = ctx
        /\ result' = << [Decision |-> r.Decision, Trace |-> r.Trace] >>
        /\ invoked' = r.calls
        /\ UNCHANGED <<policies, registered, heap, checkerVars, comb, threads>>

DoEvaluate == \E ctx \in Contexts : EvaluateCall(ctx)

Next == DoRegisterPolicy \/ DoEvaluate

Spec == Init /\ [][Next]_vars

----------------------------------------------------------------------------
(* DefaultPolicyEngine: the five built-in policies, registered in order *)

DefaultPolicies ==
    << AdminFullAccess, MFARequiredForRestricted, ProductionImmutability,
       AnalystReadOnly, EngineerAccess >>

DefaultPolicyEngineSwapped ==
    RegisterPolicy(RegisterPolicy(RegisterPolicy(RegisterPolicy(RegisterPolicy(<<>>,
        AdminFullAccess), ProductionImmutability), AnalystReadOnly),
        EngineerAccess), MFARequiredForRestricted)

DefaultPolicyEngine ==
    RegisterPolicy(RegisterPolicy(RegisterPolicy(RegisterPolicy(RegisterPolicy(<<>>,
        AdminFullAccess), MFARequiredForRestricted), ProductionImmutability),
        AnalystReadOnly), EngineerAccess)

\* the string fields are unconstrained: the recognised values and one other
Roles == {"admin", "engineer", "analyst", "guest", "intern"}
Classifications == {"public", "internal", "confidential", "restricted", ""}
Verbs == {"read", "write", "delete", "execute"}
Environments == {"production", "staging", "dev", "qa"}

AllContexts ==
    { RequestContext(role, class, 1, verb, env, mfa) :
        role \in Roles, class \in Classifications, verb \in Verbs,
        env \in Environments, mfa \in BOOLEAN }

InitDefault ==
    /\ policies = DefaultPolicyEngine
    /\ registered = DefaultPolicies
    /\ result = <<>>
    /\ invoked = <<>>
    /\ hostCtx = RequestContext("guest", "public", 1, "read", "dev", FALSE)
    /\ heap = InitHeap
    /\ NoChecker /\ NoCombinator /\ NoThreads

DoEvaluateDefault == \E ctx \in AllContexts : EvaluateCall(ctx)

NextDefault == DoEvaluateDefault

SpecDefault == InitDefault /\ [][NextDefault]_vars

----------------------------------------------------------------------------
(* A host that keeps its RequestContext variable and its tag maps after    *)
(* Evaluate has returned, and goes on writing to them.                     *)

HostRoles == {"admin", "guest"}
HostClassifications == {"public", "restricted"}
HostVerbs == {"read", "write"}
HostEnvironments == {"production", "dev"}
TagKeys == {"owner"}
TagValues == {"a", "b"}

\* m[k] = v and delete(m, k) on a map[string]string
MapStore(m, k, v) == {e \in m : e[1] # k} \cup {<<k, v>>}
MapDelete(m, k) == {e \in m : e[1] # k}

\* what a reader of a RequestContext value sees: the struct's fields, and
\* behind the Tags reference the entries of the map (none for a nil map)
View(ctx, h) ==
    [ctx EXCEPT !.Resource.Tags =
        IF ctx.Resource.Tags = 0 THEN {} ELSE h[ctx.Resource.Tags]]

InitHost ==
    /\ policies = DefaultPolicyEngine
    /\ registered = DefaultPolicies
    /\ result = <<>>
    /\ invoked = <<>>
    /\ hostCtx \in { RequestContext(role, "public", tags, "read", "dev", FALSE) :
                        role \in HostRoles, tags \in 0..1 }
    /\ heap = InitHeap
    /\ NoChecker /\ NoCombinator /\ NoThreads

\* result := engine.Evaluate(ctx), ctx being the host's variable
HostEvaluate == EvaluateCall(hostCtx)

\* ctx.Principal = ...
HostSetPrincipal ==
    \E role \in HostRoles :
        /\ hostCtx' = [hostCtx EXCEPT !.Principal.Role = role]
        /\ UNCHANGED <<engineVars, heap, checkerVars, comb, threads>>

\* ctx.Action = ...
HostSetAction ==
    \E verb \in HostVerbs :
        /\ hostCtx' = [hostCtx EXCEPT !.Action.Verb = verb]
        /\ UNCHANGED <<engineVars, heap, checkerVars, comb, threads>>

\* ctx.Environment = ...
HostSetEnvironment ==
    \E env \in HostEnvironments :
        /\ hostCtx' = [hostCtx EXCEPT !.Environment = env]
        /\ UNCHANGED <<engineVars, heap, checkerVars, comb, threads>>

\* ctx.MFAVerified = ...
HostSetMFAVerified ==
    \E mfa \in BOOLEAN :
        /\ hostCtx' = [hostCtx EXCEPT !.MFAVerified = mfa]
        /\ UNCHANGED <<engineVars, heap, checkerVars, comb, threads>>

\* ctx.Resource = Resource{...}: other field values, another map (or nil)
HostSetResource ==
    \E class \in HostClassifications, tags \in 0..MaxMaps :
        /\ hostCtx' = [hostCtx EXCEPT !.Resource.Classification = class,
                                      !.Resource.Tags = tags]
        /\ UNCHANGED <<engineVars, heap, checkerVars, comb, threads>>

\* ctx.Resource.Tags[k] = v (a store into a nil map panics)
HostTagStore ==
    \E k \in TagKeys, v \in TagValues :
        /\ hostCtx.Resource.Tags # 0
        /\ heap' = [heap EXCEPT ![hostCtx.Resource.Tags] = MapStore(@, k, v)]
        /\ UNCHANGED <<engineVars, hostCtx, checkerVars, comb, threads>>

\* delete(ctx.Resource.Tags, k) (a no-op on a nil map)
HostTagDelete ==
    \E k \in TagKeys :
        /\ heap' = IF hostCtx.Resource.Tags = 0 THEN heap
                   ELSE [heap EXCEPT ![hostCtx.Resource.Tags] = MapDelete(@, k)]
        /\ UNCHANGED <<engineVars, hostCtx, checkerVars, comb, threads>>

NextHost ==
    \/ HostEvaluate
    \/ HostSetPrincipal
    \/ HostSetAction
    \/ HostSetEnvironment
    \/ HostSetMFAVerified
    \/ HostSetResource
    \/ HostTagStore
    \/ HostTagDelete

SpecHost == InitHost /\ [][NextHost]_vars

----------------------------------------------------------------------------
(* What the returned result is compared with: each registered policy's own *)
(* answer for the context the engine was asked about.                      *)

Evaluated == result # <<>>
Decision == result[1].Decision
Steps == result[1].Trace.Steps
AskedCtx == result[1].Trace.Context

Answer(i) == PolicyFn(policies[i].Evaluate, AskedCtx)
Denies(i) == Answer(i) # Nil /\ Answer(i)[1].Effect = EffectDeny
Allows(i) == Answer(i) # Nil /\ Answer(i)[1].Effect = EffectAllow
Abstains(i) == Answer(i) = Nil

Denying == {i \in 1..Len(policies) : Denies(i)}
Allowing == {i \in 1..Len(policies) : Allows(i)}
Earliest(S) == CHOOSE i \in S : \A j \in S : i <= j

\* C1: deny wins and short-circuits. If some registered policy returns Deny,
\* Evaluate returns the decision of the first policy in evaluation order that
\* returns Deny, the last trace step is that policy's Deny step, and no policy
\* after it is invoked or appears in the trace.
C1_DenyWinsShortCircuit ==
    (Evaluated /\ Denying # {}) =>
        LET f == Earliest(Denying)
        IN  /\ Decision = Answer(f)[1]
            /\ Len(Steps) = f
            /\ Steps[f] = PolicyStep(policies[f].Name, StepDeny, Answer(f)[1].Reason)
            /\ invoked = [k \in 1..f |-> k]
            /\ \A j \in 1..Len(policies) :
                   j > f => /\ \A k \in 1..Len(invoked) : invoked[k] # j
                            /\ j > Len(Steps)

\* a Deny between an earlier Allow and a later policy that would have allowed
C1_Witness ==
    /\ Evaluated /\ Denying # {}
    /\ \E i \in Allowing : i < Earliest(Denying)
    /\ \E j \in Allowing : j > Earliest(Denying)
    /\ Decision.Effect = EffectDeny

PriorityClass(s, k) == SelectSeq(s, LAMBDA p : p.Priority = k)

\* C2: after every registration the engine's sequence is sorted by Priority
\* descending, and policies of equal Priority stand in registration order.
C2_SortedStable ==
    /\ \A i, j \in 1..Len(policies) :
           i < j => policies[i].Priority >= policies[j].Priority
    /\ \A k \in Priorities :
           PriorityClass(policies, k) = PriorityClass(registered, k)

\* three registrations that the sort had to reorder, with a tie between two
\* different policies and a negative priority
C2_Witness ==
    /\ Len(policies) = 3
    /\ policies # registered
    /\ \E i, j \in 1..3 : /\ i < j
                          /\ policies[i].Priority = policies[j].Priority
                          /\ policies[i].Name # policies[j].Name
    /\ \E i \in 1..3 : policies[i].Priority < 0

\* C3 (as claimed): the returned effect is Allow iff some registered policy
\* returns Allow and none returns Deny; in every other case it is Deny.
C3_AllowIffAllowedAndNotDenied ==
    Evaluated =>
        /\ (Decision.Effect = EffectAllow) <=> (Allowing # {} /\ Denying = {})
        /\ ~(Allowing # {} /\ Denying = {}) => EffectString(Decision.Effect) = "Deny"

\* C4 (as claimed): when no registered policy denies and at least one allows,
\* Evaluate returns the decision of the first policy in evaluation order that
\* returned Allow, and the trace has one step for every registered policy.
C4_FirstAllowSticks ==
    (Evaluated /\ Denying = {} /\ Allowing # {}) =>
        /\ Decision = Answer(Earliest(Allowing))[1]
        /\ Len(Steps) = PolicyCount(policies)

\* C5: fail-closed default. If every registered policy abstains (also with no
\* policy at all, also with duplicate names), Evaluate returns Deny, policy
\* name "default", reason "No policy explicitly granted access.", and the trace
\* holds one Abstain step with empty reason per registered policy.
C5_DefaultDeny ==
    (Evaluated /\ \A i \in 1..Len(policies) : Abstains(i)) =>
        /\ Decision = [Effect |-> EffectDeny, PolicyName |-> "default",
                       Reason |-> "No policy explicitly granted access."]
        /\ Steps = [i \in 1..Len(policies) |->
                       [PolicyName |-> policies[i].Name, Outcome |-> StepAbstain, Reason |-> ""]]

\* every policy abstained, two of them under the same name
C5_Witness ==
    /\ Evaluated
    /\ Len(policies) >= 2
    /\ \A i \in 1..Len(policies) : Abstains(i)
    /\ \E i, j \in 1..Len(policies) : i # j /\ policies[i].Name = policies[j].Name
    /\ Len(Steps) = Len(policies)

----------------------------------------------------------------------------
(* The trace's context after Evaluate has returned *)

\* what a reader of the returned trace sees in its Context
TraceContext == IF Evaluated THEN View(AskedCtx, heap) ELSE View(hostCtx, heap)

\* C6 (as claimed): the context in the returned trace is a defensive copy; no
\* write of the host to the RequestContext value it passed in (principal,
\* action, environment, MFA flag, resource, the resource's tag map) changes the
\* context recorded in an already returned trace.
C6_TraceContextIsDefensiveCopy ==
    [][(Evaluated /\ result' = result) => TraceContext' = TraceContext]_vars

----------------------------------------------------------------------------
(* The default engine's decisions *)

Role == AskedCtx.Principal.Role
Classification == AskedCtx.Resource.Classification
Verb == AskedCtx.Action.Verb
Environment == AskedCtx.Environment
MFAVerified == AskedCtx.MFAVerified

\* C7: in the default engine every request on a "restricted" resource without
\* MFA is decided Deny by "MFARequiredForRestricted", whatever the role, the
\* verb and the environment.
C7_RestrictedWithoutMFADenied ==
    (Evaluated /\ Classification = "restricted" /\ ~MFAVerified) =>
        /\ Decision.Effect = EffectDeny
        /\ Decision.PolicyName = "MFARequiredForRestricted"

\* an admin (whom AdminFullAccess allowed first) denied for lack of MFA
C7_Witness ==
    /\ Evaluated /\ Classification = "restricted" /\ ~MFAVerified
    /\ Role = "admin"
    /\ Len(Steps) = 2 /\ Steps[1].Outcome = StepAllow /\ Steps[2].Outcome = StepDeny

\* C8 (as claimed): in the default engine every request of an "admin" is
\* decided Allow by "AdminFullAccess", for every resource, verb, environment
\* and MFA flag.
C8_AdminAlwaysAllowed ==
    (Evaluated /\ Role = "admin") =>
        /\ Decision.Effect = EffectAllow
        /\ Decision.PolicyName = "AdminFullAccess"

\* C8 (amended): in the default engine every request of an "admin" is decided
\* Allow by "AdminFullAccess", for every resource, verb, environment and MFA
\* flag, except a request on a "restricted" resource without MFA.
C8_AdminAllowedUnlessRestrictedWithoutMFA ==
    (Evaluated /\ Role = "admin" /\ ~(Classification = "restricted" /\ ~MFAVerified)) =>
        /\ Decision.Effect = EffectAllow
        /\ Decision.PolicyName = "AdminFullAccess"

\* an admin deleting a restricted resource in production, with MFA
C8_Witness ==
    /\ Evaluated /\ Role = "admin"
    /\ Classification = "restricted" /\ MFAVerified
    /\ Verb = "delete" /\ Environment = "production"
    /\ Decision.Effect = EffectAllow

\* C9: in the default engine every "write" or "delete" in "production" by a
\* role other than "admin" has effect Deny, for every resource and MFA flag.
C9_ProductionWriteDeniedForNonAdmin ==
    (Evaluated /\ Environment = "production" /\ Verb \in {"write", "delete"}
               /\ Role # "admin") =>
        Decision.Effect = EffectDeny

\* an engineer's delete in production, denied by ProductionImmutability
C9_Witness ==
    /\ Evaluated /\ Environment = "production" /\ Verb = "delete"
    /\ Role = "engineer" /\ Classification = "internal"
    /\ Decision.Effect = EffectDeny
    /\ Decision.PolicyName = "ProductionImmutability"

\* C10: in the default engine a request of an "analyst" has effect Allow iff
\* the verb is "read" and the classification is neither "confidential" nor
\* "restricted"; when allowed the deciding policy is "AnalystReadOnly"; in every
\* other case the effect is Deny, whatever the environment and the MFA flag.
C10_AnalystReadOnly ==
    (Evaluated /\ Role = "analyst") =>
        LET readable == Verb = "read" /\ Classification \notin {"confidential", "restricted"}
        IN  /\ (Decision.Effect = EffectAllow) <=> readable
            /\ readable => Decision.PolicyName = "AnalystReadOnly"
            /\ ~readable => Decision.Effect = EffectDeny

\* an analyst's read in production with MFA, refused on a confidential resource
C10_Witness ==
    /\ Evaluated /\ Role = "analyst" /\ Verb = "read"
    /\ Classification = "confidential" /\ MFAVerified
    /\ Environment = "production"
    /\ Decision.Effect = EffectDeny /\ Decision.PolicyName = "AnalystReadOnly"


\* C11 (as claimed): in the default engine a request of an "engineer" has effect Allow iff
\* the classification is not "restricted" and either the environment is "dev"
\* or "staging" (any verb) or it is "production" and the verb is "read";
\* otherwise the effect is Deny. An engineer with MFA on a restricted resource
\* gets the default Deny.
C11_EngineerAccess ==
    (Evaluated /\ Role = "engineer") =>
        LET granted == /\ Classification # "restricted"
                       /\ \/ Environment \in {"dev", "staging"}
                          \/ Environment = "production" /\ Verb = "read"
        IN  /\ (Decision.Effect = EffectAllow) <=> granted
            /\ ~granted => Decision.Effect = EffectDeny
            /\ (Classification = "restricted" /\ MFAVerified) =>
                   Decision = [Effect |-> EffectDeny, PolicyName |-> "default",
                               Reason |-> "No policy explicitly granted access."]

\* C11 (amended): as claimed, except that the engineer with MFA on a restricted
\* resource gets the default Deny only when the request is not a "write" or
\* "delete" in "production", which ProductionImmutability denies first.
C11_EngineerAccessAmended ==
    (Evaluated /\ Role = "engineer") =>
        LET granted == /\ Classification # "restricted"
                       /\ \/ Environment \in {"dev", "staging"}
                          \/ Environment = "production" /\ Verb = "read"
            immutable == Environment = "production" /\ Verb \in {"write", "delete"}
        IN  /\ (Decision.Effect = EffectAllow) <=> granted
            /\ ~granted => Decision.Effect = EffectDeny
            /\ (Classification = "restricted" /\ MFAVerified) =>
                   Decision.PolicyName =
                       IF immutable THEN "ProductionImmutability" ELSE "default"

\* an engineer with MFA reading a restricted resource in staging: default Deny
C11_Witness ==
    /\ Evaluated /\ Role = "engineer"
    /\ Classification = "restricted" /\ MFAVerified
    /\ Environment = "staging" /\ Verb = "read"
    /\ Decision.PolicyName = "default"
    /\ Len(Steps) = 5


----------------------------------------------------------------------------
(* Compliance rules, rule sets and the ComplianceChecker *)

Resource(id, type, class, tags) ==
    [ID |-> id, Type |-> type, Classification |-> class, Tags |-> tags]

\* the entries behind a Tags reference (a nil map reads as empty)
Tags(r, h) == IF r.Tags = 0 THEN {} ELSE h[r.Tags]

\* _, ok := r.Tags["owner"]; return ok
RequiresOwnerTagCheck(r, h) == \E e \in Tags(r, h) : e[1] = "owner"

SecretsNotPublicCheck(r, h) == ~(r.Type = "secret" /\ r.Classification = "public")

DatabasesMustBeRestrictedCheckRestrictedOnly(r, h) ==
    IF r.Type # "database" THEN TRUE
    ELSE r.Classification = "restricted"

DatabasesMustBeRestrictedCheck(r, h) ==
    IF r.Type # "database" THEN TRUE
    ELSE r.Classification = "restricted" \/ r.Classification = "confidential"

NoUnclassifiedResourcesCheck(r, h) == r.Classification # ""

\* a rule of the host's own
HasTypeCheck(r, h) == r.Type # ""

\* calling the function value stored in ComplianceRule.Check
RuleCheck(fn, r, h) ==
    CASE fn = "RequiresOwnerTag"          -> RequiresOwnerTagCheck(r, h)
      [] fn = "SecretsNotPublic"          -> SecretsNotPublicCheck(r, h)
      [] fn = "DatabasesMustBeRestricted" -> DatabasesMustBeRestrictedCheck(r, h)
      [] fn = "NoUnclassifiedResources"   -> NoUnclassifiedResourcesCheck(r, h)
      [] fn = "HasType"                   -> HasTypeCheck(r, h)

ComplianceRule(name, version, author, description, check) ==
    [Name |-> name, Version |-> version, Author |-> author,
     Description |-> description, Check |-> check]

RequiresOwnerTag ==
    ComplianceRule("RequiresOwnerTag", "1.0", "governance-team",
                   "Resource must have an 'owner' tag.", "RequiresOwnerTag")

SecretsNotPublic ==
    ComplianceRule("SecretsNotPublic", "1.0", "governance-team",
                   "Resources of type 'secret' must not be classified as 'public'.",
                   "SecretsNotPublic")

DatabasesMustBeRestricted ==
    ComplianceRule("DatabasesMustBeRestricted", "1.0", "governance-team",
                   "Database resources must be classified as 'restricted' or 'confidential'.",
                   "DatabasesMustBeRestricted")

NoUnclassifiedResources ==
    ComplianceRule("NoUnclassifiedResources", "1.0", "governance-team",
                   "Every resource must have a non-empty classification.",
                   "NoUnclassifiedResources")

HasType ==
    ComplianceRule("HasType", "2.3", "host-team", "Resource must have a type.", "HasType")

RuleSet(name, rs) == [Name |-> name, Rules |-> rs]

SOC2RuleSet == RuleSet("SOC2", <<RequiresOwnerTag, NoUnclassifiedResources>>)

DataSecurityRuleSet ==
    RuleSet("DataSecurity", <<SecretsNotPublic, DatabasesMustBeRestricted>>)

\* ComplianceChecker.AddRule
AddRule(c, rule) == Append(c, rule)

AddRulesReversed(c, rs) == c \o [i \in 1..Len(rs) |-> rs[Len(rs) + 1 - i]]

\* ComplianceChecker.AddRules: one append per rule, in order
AddRules(c, rs) == c \o rs

\* the copy AddRuleSet appends for one rule of the set
Prefixed(rs, rule) ==
    ComplianceRule(rs.Name \o "/" \o rule.Name, rule.Version, rule.Author,
                   rule.Description, rule.Check)

AddRuleSetInPlace(c, rs) ==
    LET renamed == [i \in 1..Len(rs.Rules) |-> Prefixed(rs, rs.Rules[i])]
    IN  [rules |-> c \o renamed, rs |-> [rs EXCEPT !.Rules = renamed]]

\* ComplianceChecker.AddRuleSet: the checker's rules after the call, and the
\* RuleSet's rule array after the call (the loop writes to neither the set nor
\* its rules; each appended rule is a new value)
AddRuleSet(c, rs) ==
    [rules |-> c \o [i \in 1..Len(rs.Rules) |-> Prefixed(rs, rs.Rules[i])],
     rs    |-> rs]

RuleCount(c) == Len(c)

\* fmt.Sprintf("[%s] %s", rule.Name, rule.Description)
Violation(rule) == "[" \o rule.Name \o "] " \o rule.Description

ComplianceReport(id, violations, calls) ==
    [ResourceID |-> id, Violations |-> violations, calls |-> calls]

\* the loop over c.rules, from index i on, with the violations so far and the
\* indices of the rules checked so far
RECURSIVE CheckLoop(_, _, _, _, _, _)
CheckLoop(c, resource, h, i, violations, calls) ==
    IF i > Len(c)
    THEN ComplianceReport(resource.ID, violations, calls)
    ELSE LET rule == c[i]
         IN  IF ~RuleCheck(rule.Check, resource, h)
             THEN CheckLoop(c, resource, h, i + 1,
                            Append(violations, Violation(rule)), Append(calls, i))
             ELSE CheckLoop(c, resource, h, i + 1, violations, Append(calls, i))

CheckerEvaluateShortCircuit(c, resource, h) ==
         LET k == IF \E j \in 1..Len(c) : ~RuleCheck(c[j].Check, resource, h)
                  THEN CHOOSE j \in 1..Len(c) :
                           /\ ~RuleCheck(c[j].Check, resource, h)
                           /\ \A l \in 1..(j - 1) : RuleCheck(c[l].Check, resource, h)
                  ELSE 0
         IN  IF k = 0 THEN ComplianceReport(resource.ID, <<>>, [j \in 1..Len(c) |-> j])
             ELSE ComplianceReport(resource.ID, <<Violation(c[k])>>, [j \in 1..k |-> j])

\* ComplianceChecker.Evaluate
CheckerEvaluate(c, resource, h) == CheckLoop(c, resource, h, 1, <<>>, <<>>)

CompliantInverted(r) == Len(r.Violations) # 0

\* ComplianceReport.Compliant
Compliant(r) == Len(r.Violations) = 0

\* ComplianceReport.MarshalJSON: the object handed to json.Marshal
ComplianceReportJSON(r) ==
    [resource_id |-> r.ResourceID,
     compliant   |-> Compliant(r),
     violations  |-> r.Violations]


----------------------------------------------------------------------------
(* The general checker: any rules and rule sets, any resources *)

\* a program that has made no engine
NoEngine == policies = <<>> /\ registered = <<>> /\ result = <<>> /\ invoked = <<>>

\* the tag maps of the resources handed to a checker
CheckerHeap ==
    [a \in 1..MaxMaps |-> IF a = 1 THEN {}
                          ELSE IF a = 2 THEN {<<"owner", "team-a">>}
                          ELSE {<<"env", "prod">>}]

HostRules == {RequiresOwnerTag, DatabasesMustBeRestricted, HasType}

BundleNames == {"SOC2", "DataSecurity"}

CheckResources ==
    { Resource("r1", t, c, a) :
        t \in {"database", "secret"}, c \in {"public", ""}, a \in 0..MaxMaps }
    \cup {Resource("r2", "", "restricted", 2)}

\* the history entries of one call that gave the checker the rules rs
Given(op, set, rs) == [i \in 1..Len(rs) |-> [op |-> op, set |-> set, rule |-> rs[i]]]

InitChecker ==
    /\ NoEngine /\ NoCombinator /\ NoThreads
    /\ hostCtx = RequestContext("guest", "public", 1, "read", "dev", FALSE)
    /\ heap = CheckerHeap
    /\ rules = <<>>
    /\ report = <<>>
    /\ checked = <<>>
    /\ bundles = [SOC2 |-> SOC2RuleSet, DataSecurity |-> DataSecurityRuleSet]
    /\ added = <<>>

\* checker.AddRule(rule); the call returns nothing
DoAddRule ==
    \E rule \in HostRules :
        /\ Len(rules) < MaxRules
        /\ rules' = AddRule(rules, rule)
        /\ added' = added \o Given("AddRule", "", <<rule>>)
        /\ report' = <<>>
        /\ checked' = <<>>
        /\ UNCHANGED <<engineVars, hostCtx, heap, bundles, comb, threads>>

\* checker.AddRules(rs), with a slice of the host's own or the rules of one of
\* its rule sets
DoAddRules ==
    \E rs \in {<<>>, <<HasType, RequiresOwnerTag>>}
              \cup {bundles[b].Rules : b \in BundleNames} :
        /\ Len(rules) + Len(rs) <= MaxRules
        /\ rules' = AddRules(rules, rs)
        /\ added' = added \o Given("AddRules", "", rs)
        /\ report' = <<>>
        /\ checked' = <<>>
        /\ UNCHANGED <<engineVars, hostCtx, heap, bundles, comb, threads>>

\* checker.AddRuleSet(rs), with one of the host's RuleSet values
DoAddRuleSet ==
    \E b \in BundleNames :
        LET rs  == bundles[b]
            out == AddRuleSet(rules, rs)
        IN  /\ Len(rules) + Len(rs.Rules) <= MaxRules
            /\ rules' = out.rules
            /\ bundles' = [bundles EXCEPT ![b] = out.rs]
            /\ added' = added \o Given("AddRuleSet", rs.Name, rs.Rules)
            /\ report' = <<>>
            /\ checked' = <<>>
            /\ UNCHANGED <<engineVars, hostCtx, heap, comb, threads>>

\* report := checker.Evaluate(hostCtx.Resource)
CheckerEvaluateCall(resource) ==
    LET r == CheckerEvaluate(rules, resource, heap)
    IN  /\ hostCtx' = [hostCtx EXCEPT !.Resource = resource]
        /\ report' = << [ResourceID |-> r.ResourceID, Violations |-> r.Violations] >>
        /\ checked' = r.calls
        /\ UNCHANGED <<engineVars, heap, rules, bundles, added, comb, threads>>

DoCheckerEvaluate == \E resource \in CheckResources : CheckerEvaluateCall(resource)

NextChecker == DoAddRule \/ DoAddRules \/ DoAddRuleSet \/ DoCheckerEvaluate

SpecChecker == InitChecker /\ [][NextChecker]_vars

----------------------------------------------------------------------------
(* The default checker, asked about every resource *)

DefaultRules ==
    <<RequiresOwnerTag, SecretsNotPublic, DatabasesMustBeRestricted,
      NoUnclassifiedResources>>

RECURSIVE AddEach(_, _, _)
AddEach(c, rs, i) == IF i > Len(rs) THEN c ELSE AddEach(AddRule(c, rs[i]), rs, i + 1)

\* DefaultComplianceChecker(): four AddRule calls on a new checker
DefaultComplianceChecker == AddEach(<<>>, DefaultRules, 1)

ResourceTypes == {"database", "secret", "storage", "compute", ""}

AllResources ==
    { Resource(id, t, c, a) :
        id \in {"r1", "r2"}, t \in ResourceTypes, c \in Classifications,
        a \in 0..MaxMaps }

InitDefaultChecker ==
    /\ NoEngine /\ NoCombinator /\ NoThreads
    /\ hostCtx = RequestContext("guest", "public", 1, "read", "dev", FALSE)
    /\ heap = CheckerHeap
    /\ rules = DefaultComplianceChecker
    /\ report = <<>>
    /\ checked = <<>>
    /\ bundles = [SOC2 |-> SOC2RuleSet, DataSecurity |-> DataSecurityRuleSet]
    /\ added = Given("AddRule", "", DefaultRules)

DoEvaluateDefaultChecker == \E resource \in AllResources : CheckerEvaluateCall(resource)

NextDefaultChecker == DoEvaluateDefaultChecker

SpecDefaultChecker == InitDefaultChecker /\ [][NextDefaultChecker]_vars


----------------------------------------------------------------------------
(* Claims about the compliance checker *)

Reported == report # <<>>
Report == report[1]
AskedResource == hostCtx.Resource

\* the check of the checker's i-th rule fails on the resource asked about
Fails(i) == ~RuleCheck(rules[i].Check, AskedResource, heap)

\* the indices of the failing rules, in the checker's order
Failing == SelectSeq([i \in 1..Len(rules) |-> i], LAMBDA i : Fails(i))

\* C12: ComplianceChecker.Evaluate is exhaustive and does not short-circuit:
\* it calls the check of every registered rule exactly once, in registration
\* order; the violations are exactly one entry "[<RuleName>] <RuleDescription>"
\* per failing rule, in that order; the report carries the resource's id.
C12_ExhaustiveEvaluate ==
    Reported =>
        /\ checked = [i \in 1..Len(added) |-> i]
        /\ Len(rules) = Len(added)
        /\ \A i \in 1..Len(added) : rules[i].Check = added[i].rule.Check
        /\ Report.Violations =
               [k \in 1..Len(Failing) |->
                   "[" \o rules[Failing[k]].Name \o "] " \o rules[Failing[k]].Description]
        /\ Report.ResourceID = AskedResource.ID

C12_Witness ==
    /\ Reported
    /\ Len(rules) = 3
    /\ Fails(1) /\ ~Fails(2) /\ Fails(3)
    /\ Len(Report.Violations) = 2
    /\ checked = <<1, 2, 3>>


\* C13: the default checker reports RequiresOwnerTag exactly when the
\* resource's tags have no key "owner", SecretsNotPublic exactly when the type
\* is "secret" and the classification "public", DatabasesMustBeRestricted
\* exactly when the type is "database" and the classification is neither
\* "restricted" nor "confidential", NoUnclassifiedResources exactly when the
\* classification is empty; in that order, under the unprefixed rule names.
\* A public database without tags yields exactly RequiresOwnerTag and
\* DatabasesMustBeRestricted.
C13_DefaultCheckerRules ==
    Reported =>
        LET r  == AskedResource
            owned == r.Tags # 0 /\ \E e \in heap[r.Tags] : e[1] = "owner"
            v1 == IF ~owned
                  THEN <<"[RequiresOwnerTag] Resource must have an 'owner' tag.">>
                  ELSE <<>>
            v2 == IF r.Type = "secret" /\ r.Classification = "public"
                  THEN <<"[SecretsNotPublic] Resources of type 'secret' must not be classified as 'public'.">>
                  ELSE <<>>
            v3 == IF r.Type = "database" /\ r.Classification \notin {"restricted", "confidential"}
                  THEN <<"[DatabasesMustBeRestricted] Database resources must be classified as 'restricted' or 'confidential'.">>
                  ELSE <<>>
            v4 == IF r.Classification = ""
                  THEN <<"[NoUnclassifiedResources] Every resource must have a non-empty classification.">>
                  ELSE <<>>
        IN  /\ Report.Violations = v1 \o v2 \o v3 \o v4
            /\ (r.Type = "database" /\ r.Classification = "public" /\ r.Tags \in {0, 1})
                   => Report.Violations =
                        <<"[RequiresOwnerTag] Resource must have an 'owner' tag.",
                          "[DatabasesMustBeRestricted] Database resources must be classified as 'restricted' or 'confidential'.">>

C13_Witness ==
    /\ Reported
    /\ AskedResource.Type = "database"
    /\ AskedResource.Classification = "public"
    /\ AskedResource.Tags = 0
    /\ Len(Report.Violations) = 2
    /\ checked = <<1, 2, 3, 4>>


\* C14: AddRuleSet is copy-on-merge: the checker gains len(rs.Rules) rules,
\* appended in the set's order, each named "<rs.Name>/<original name>" with the
\* original version, author, description and check; the RuleSet and its rules
\* are unchanged, so merging the same RuleSet value again prefixes exactly once.
C14_CopyOnMerge ==
    /\ Len(rules) = Len(added)
    /\ \A i \in 1..Len(added) :
           added[i].op = "AddRuleSet" =>
               /\ rules[i].Name = added[i].set \o "/" \o added[i].rule.Name
               /\ rules[i].Version = added[i].rule.Version
               /\ rules[i].Author = added[i].rule.Author
               /\ rules[i].Description = added[i].rule.Description
               /\ rules[i].Check = added[i].rule.Check
               /\ rules[i].Name \in {"SOC2/RequiresOwnerTag", "SOC2/NoUnclassifiedResources",
                                     "DataSecurity/SecretsNotPublic",
                                     "DataSecurity/DatabasesMustBeRestricted"}
    /\ bundles.SOC2 = SOC2RuleSet
    /\ bundles.DataSecurity = DataSecurityRuleSet

C14_Witness ==
    /\ Len(rules) = 4
    /\ \A i \in 1..4 : added[i].op = "AddRuleSet" /\ added[i].set = "SOC2"
    /\ rules[1].Name = "SOC2/RequiresOwnerTag"
    /\ rules[4].Name = "SOC2/NoUnclassifiedResources"
    /\ rules[3] = rules[1]


\* the i-th rule of the checker was given through AddRule or AddRules
Unbundled(i) == added[i].op \in {"AddRule", "AddRules"}

\* C15: AddRule and AddRules register rules under their names unmodified
\* (the whole rule is stored as given); an AddRules call leaves the checker
\* with its previous rules followed by the given rules in order; a violation
\* of such a rule reads "[<RuleName>] <description>" with no bundle prefix.
C15_AddRulesUnprefixed ==
    /\ [](/\ Len(rules) = Len(added)
          /\ \A i \in 1..Len(added) : Unbundled(i) => rules[i] = added[i].rule
          /\ Reported =>
                \A k \in 1..Len(Failing) :
                    Unbundled(Failing[k]) =>
                        Report.Violations[k] =
                            "[" \o added[Failing[k]].rule.Name \o "] "
                                \o added[Failing[k]].rule.Description)
    /\ [][(Len(added') > Len(added) /\ added'[Len(added')].op = "AddRules")
            => rules' = rules \o [i \in 1..(Len(added') - Len(added)) |->
                                     added'[Len(added) + i].rule]]_vars

C15_Witness ==
    /\ Reported
    /\ Len(rules) = 4
    /\ added[1].op = "AddRuleSet" /\ added[2].op = "AddRuleSet"
    /\ added[3].op = "AddRules" /\ added[3].rule = HasType
    /\ added[4].op = "AddRules" /\ added[4].rule = RequiresOwnerTag
    /\ Fails(1) /\ Fails(4)
    /\ Report.Violations[1] = "[SOC2/RequiresOwnerTag] Resource must have an 'owner' tag."
    /\ Report.Violations[Len(Report.Violations)] =
           "[RequiresOwnerTag] Resource must have an 'owner' tag."


\* C16: a report's Compliant() is true exactly when its violation list is
\* empty, which is exactly when every registered rule's check returned true
\* for the resource; the "compliant" field of the report's JSON form equals
\* Compliant().
C16_CompliantIffNoViolations ==
    Reported =>
        LET passes == \A i \in 1..Len(rules) : RuleCheck(rules[i].Check, AskedResource, heap)
        IN  /\ Compliant(Report) <=> (Report.Violations = <<>>)
            /\ (Report.Violations = <<>>) <=> passes
            /\ ComplianceReportJSON(Report).compliant = Compliant(Report)
            /\ ComplianceReportJSON(Report).resource_id = AskedResource.ID
            /\ ComplianceReportJSON(Report).violations = Report.Violations

C16_Witness ==
    /\ Reported
    /\ Len(rules) = 3
    /\ Report.Violations = <<>>
    /\ ComplianceReportJSON(Report) =
           [resource_id |-> "r2", compliant |-> TRUE, violations |-> <<>>]



----------------------------------------------------------------------------
(* Combinators and When: the host collects sub-policies in a slice, builds  *)
(* a policy from them and calls its Evaluate                                *)

\* calling a function value, keeping the indices of the sub-policies a
\* combinator's closure invoked
Invoke(fn, ctx) ==
    CASE fn.fn = "AllOf"  -> AllOfFn(fn.name, fn.policies, ctx)
      [] fn.fn = "AnyOf"  -> AnyOfFn(fn.name, fn.policies, ctx)
      [] fn.fn = "NoneOf" -> NoneOfFn(fn.name, fn.policies, ctx)
      [] fn.fn = "When"   -> WhenFn(fn.predicate, fn.policies[1], ctx)
      [] OTHER            -> Returned(PolicyFn(fn, ctx), <<>>)

HostAbstain == PolicyBy("AlwaysAbstain", "0.1", "host-team", -1, Fn("AlwaysAbstain"))
HostDeny == PolicyBy("AlwaysDeny", "2.0", "host-team", 1, Fn("AlwaysDeny"))
HostGuarded == PolicyBy("Guarded", "3.1", "host-team", 1, Fn("First"))

\* the policies a host hands to a combinator
SubPolicies ==
    { HostAbstain, HostDeny,
      Policy("First", 0, Fn("First")),
      Policy("OtherEffect", 0, Fn("OtherEffect")),
      AdminFullAccess,
      AnyOf("Inner", <<HostAbstain, HostDeny>>),
      When(ForRole({"admin"}), HostGuarded) }

Predicates ==
    { InEnvironment({"production"}), ForRole({"guest", "engineer"}),
      ForResourceType({"database", "secret"}) }

InitCombinators ==
    /\ NoEngine /\ NoChecker /\ NoThreads
    /\ hostCtx = RequestContext("guest", "public", 1, "read", "dev", FALSE)
    /\ heap = InitHeap
    /\ comb = [subs |-> <<>>, call |-> <<>>]

\* subs = append(subs, p)
DoAppendSub ==
    \E p \in SubPolicies :
        /\ Len(comb.subs) < MaxSubs
        /\ comb' = [subs |-> Append(comb.subs, p), call |-> <<>>]
        /\ UNCHANGED <<engineVars, checkerVars, hostCtx, heap, threads>>

\* d := policy.Evaluate(ctx) for a policy the host has just built
CombinatorCall(op, policy, ctx) ==
    LET r == Invoke(policy.Evaluate, ctx)
    IN  /\ hostCtx' = ctx
        /\ comb' = [comb EXCEPT !.call =
                       << [op |-> op, policy |-> policy, d |-> r.d, calls |-> r.calls] >>]
        /\ UNCHANGED <<engineVars, checkerVars, heap, threads>>

\* AllOf("Combo", subs...).Evaluate(ctx)
DoAllOf == \E ctx \in Contexts : CombinatorCall("AllOf", AllOf("Combo", comb.subs), ctx)

\* AnyOf("Combo", subs...).Evaluate(ctx)
DoAnyOf == \E ctx \in Contexts : CombinatorCall("AnyOf", AnyOf("Combo", comb.subs), ctx)

\* NoneOf("Combo", subs...).Evaluate(ctx)
DoNoneOf == \E ctx \in Contexts : CombinatorCall("NoneOf", NoneOf("Combo", comb.subs), ctx)

\* When(predicate, wrapped).Evaluate(ctx), wrapped being the last policy of the slice
DoWhen ==
    \E predicate \in Predicates, ctx \in Contexts :
        /\ Len(comb.subs) >= 1
        /\ CombinatorCall("When", When(predicate, comb.subs[Len(comb.subs)]), ctx)

NextCombinators == DoAppendSub \/ DoAllOf \/ DoAnyOf \/ DoNoneOf \/ DoWhen

SpecCombinators == InitCombinators /\ [][NextCombinators]_vars


----------------------------------------------------------------------------
(* Claims about the combinators and When *)

Called == comb.call # <<>>
Call == comb.call[1]

\* the sub-policies the called policy's closure captured
Subs == Call.policy.Evaluate.policies

\* the context of the call
CallCtx == hostCtx

\* what sub-policy i returns for the context of the call
SubAnswer(i) == PolicyFn(Subs[i].Evaluate, CallCtx)
SubDenies(i) == SubAnswer(i) # Nil /\ SubAnswer(i)[1].Effect = EffectDeny
SubAllows(i) == SubAnswer(i) # Nil /\ SubAnswer(i)[1].Effect = EffectAllow
SubAbstains(i) == SubAnswer(i) = Nil

\* the sub-policies 1..k, in order
UpTo(k) == [i \in 1..k |-> i]

\* C17: AllOf with no sub-policies returns Allow; otherwise it scans the
\* sub-policies in order and returns Deny at the first one that denies (also
\* after an abstaining one), naming it in the reason and not evaluating the
\* later ones; if none denies and at least one abstains it abstains; if all
\* allow it returns Allow.  Every decision carries the combinator's name.
C17_AllOf ==
    (Called /\ Call.op = "AllOf") =>
        LET n == Len(Subs)
            denying == {i \in 1..n : SubDenies(i)}
            k == Earliest(denying)
            d == Call.d
        IN  /\ n = 0 => (d # Nil /\ d[1].Effect = EffectAllow)
            /\ denying # {} =>
                   /\ d # Nil /\ d[1].Effect = EffectDeny
                   /\ d[1].Reason = "AllOf denied by sub-policy " \o Subs[k].Name
                                        \o ": " \o SubAnswer(k)[1].Reason
                   /\ Call.calls = UpTo(k)
            /\ (denying = {} /\ \E i \in 1..n : SubAbstains(i)) =>
                   (d = Nil /\ Call.calls = UpTo(n))
            /\ (n > 0 /\ \A i \in 1..n : SubAllows(i)) =>
                   (d # Nil /\ d[1].Effect = EffectAllow /\ Call.calls = UpTo(n))
            /\ d # Nil => d[1].PolicyName = Call.policy.Name

\* an abstaining sub-policy, then a denying one, then one never reached
C17_Witness ==
    /\ Called /\ Call.op = "AllOf"
    /\ Len(Subs) = 3
    /\ SubAbstains(1) /\ SubDenies(2) /\ SubAllows(3)
    /\ Call.calls = <<1, 2>>
    /\ Call.d = PolicyDecision(EffectDeny, "Combo",
                               "AllOf denied by sub-policy AlwaysDeny: Always denied.")

C19_NoneOf ==
    (Called /\ Call.op = "NoneOf") =>
        LET n == Len(Subs)
            allowing == {i \in 1..n : SubAllows(i)}
            d == Call.d
        IN  /\ d # Nil => d[1].Effect = EffectDeny
            /\ (d # Nil) <=> (allowing # {})
            /\ allowing # {} =>
                   /\ d[1].Reason = "NoneOf blocked by sub-policy "
                                        \o Subs[Earliest(allowing)].Name \o ": "
                                        \o SubAnswer(Earliest(allowing))[1].Reason
                   /\ d[1].PolicyName = Call.policy.Name
                   /\ Call.calls = UpTo(Earliest(allowing))
            /\ allowing = {} => Call.calls = UpTo(n)

\* a denying sub-policy is passed over, the allowing one after it is blocked
C19_Witness ==
    /\ Called /\ Call.op = "NoneOf"
    /\ Len(Subs) = 3
    /\ SubDenies(1) /\ SubAllows(2)
    /\ Call.calls = <<1, 2>>
    /\ Call.d = PolicyDecision(EffectDeny, "Combo",
                               "NoneOf blocked by sub-policy First: first allow")


\* an engine holding one policy of each priority, in evaluation order
Ladder ==
    RegisterPolicy(RegisterPolicy(RegisterPolicy(<<>>,
        Policy("mid", 0, Fn("AlwaysAbstain"))),
        Policy("low", -1, Fn("AlwaysAbstain"))),
        Policy("high", 1, Fn("AlwaysAbstain")))

\* C20: When(predicate, wrapped) has the wrapped policy's name, version,
\* author and priority; it abstains without invoking the wrapped policy when
\* the predicate is false for the context, and otherwise returns exactly what
\* the wrapped policy returns; registered in an engine it takes the place the
\* inherited priority gives it (after the policies of the same or a higher
\* priority, before those of a lower one).
C20_When ==
    (Called /\ Call.op = "When") =>
        LET p == Call.policy
            wrapped == Subs[1]
            holds == Predicate(p.Evaluate.predicate, CallCtx)
            k == Cardinality({i \in 1..Len(Ladder) : Ladder[i].Priority >= wrapped.Priority})
        IN  /\ p.Name = wrapped.Name
            /\ p.Version = wrapped.Version
            /\ p.Author = wrapped.Author
            /\ p.Priority = wrapped.Priority
            /\ ~holds => (Call.d = Nil /\ Call.calls = <<>>)
            /\ holds => (Call.d = SubAnswer(1) /\ Call.calls = <<1>>)
            /\ RegisterPolicy(Ladder, p) =
                   SubSeq(Ladder, 1, k) \o <<p>> \o SubSeq(Ladder, k + 1, Len(Ladder))

\* the predicate is false and the wrapped policy, which would deny, is not asked
C20_Witness ==
    /\ Called /\ Call.op = "When"
    /\ ~Predicate(Call.policy.Evaluate.predicate, CallCtx)
    /\ Subs[1] = HostDeny
    /\ SubDenies(1)
    /\ Call.d = Nil /\ Call.calls = <<>>
    /\ Call.policy.Priority = 1
    /\ RegisterPolicy(Ladder, Call.policy)[2] = Call.policy


----------------------------------------------------------------------------
(* Claims about traces and about the engine as a whole *)

\* C25: for every trace Evaluate returns, EvaluatedCount() is the number of
\* Allow and Deny steps, AbstainCount() the number of Abstain steps, their sum
\* the number of steps, and every Abstain step has an empty reason.
C25_TraceCounts ==
    Evaluated =>
        LET t == result[1].Trace
            n == Len(t.Steps)
        IN  /\ EvaluatedCount(t) =
                   Cardinality({i \in 1..n : t.Steps[i].Outcome \in {StepAllow, StepDeny}})
            /\ AbstainCount(t) =
                   Cardinality({i \in 1..n : t.Steps[i].Outcome = StepAbstain})
            /\ EvaluatedCount(t) + AbstainCount(t) = n
            /\ \A i \in 1..n : t.Steps[i].Outcome = StepAbstain => t.Steps[i].Reason = ""

C25_Witness ==
    /\ Evaluated
    /\ Len(Steps) = 3
    /\ Steps[1].Outcome = StepAbstain
    /\ Steps[2].Outcome = StepAllow
    /\ Steps[3].Outcome = StepDeny
    /\ EvaluatedCount(result[1].Trace) = 2
    /\ AbstainCount(result[1].Trace) = 1


\* C26: the policy names of the trace steps are a prefix, in order, of the
\* names of the engine's priority-sorted policy sequence; each registered
\* policy is invoked at most once; the trace has at most one Deny step and a
\* Deny step is always the last step; the number of steps equals PolicyCount()
\* exactly when the trace has no Deny step or the denying policy is the last
\* one in evaluation order.
C26_TraceIsPrefix ==
    Evaluated =>
        LET n == Len(Steps)
            denied == {i \in 1..n : Steps[i].Outcome = StepDeny}
        IN  /\ n <= Len(policies)
            /\ \A i \in 1..n : Steps[i].PolicyName = policies[i].Name
            /\ \A i, j \in 1..Len(policies) :
                   i < j => policies[i].Priority >= policies[j].Priority
            /\ \A i, j \in 1..Len(invoked) : i # j => invoked[i] # invoked[j]
            /\ \A i \in 1..Len(invoked) : invoked[i] \in 1..Len(policies)
            /\ Cardinality(denied) <= 1
            /\ \A i \in denied : i = n
            /\ (n = PolicyCount(policies)) <=> (denied = {} \/ denied = {Len(policies)})

\* a Deny at the second of three policies: the trace stops short of PolicyCount()
C26_Witness ==
    /\ Evaluated
    /\ PolicyCount(policies) = 3
    /\ Len(Steps) = 2
    /\ Steps[1].Outcome = StepAllow
    /\ Steps[2].Outcome = StepDeny
    /\ policies[1].Priority > policies[2].Priority
    /\ policies[3].Name # policies[2].Name
    /\ invoked = <<1, 2>>


\* C30: the engine grants only on an explicit Allow: a decision is recorded
\* as an Allow step, and can become the returned granting decision, only when
\* its Effect is exactly EffectAllow; a decision with any other Effect is
\* never recorded as Allow and is never returned as the first Allow.
C30_OnlyExplicitAllowGrants ==
    Evaluated =>
        /\ \A i \in 1..Len(Steps) : Steps[i].Outcome = StepAllow => Allows(i)
        /\ Decision.Effect # EffectDeny => Decision.Effect = EffectAllow
        /\ (\E i \in 1..Len(Steps) : Steps[i].Outcome = StepAllow)
               => (Decision.Effect = EffectAllow \/ Steps[Len(Steps)].Outcome = StepDeny)


\* C29: in the default engine a request on a resource classified "restricted"
\* has effect Allow only if the role is "admin" and the MFA flag is true;
\* every other role is denied on restricted resources for every verb,
\* environment and MFA flag.
C29_RestrictedOnlyAdminWithMFA ==
    (Evaluated /\ Classification = "restricted") =>
        /\ Decision.Effect = EffectAllow => (Role = "admin" /\ MFAVerified)
        /\ Role # "admin" => Decision.Effect = EffectDeny

\* an engineer with MFA reading a restricted resource in dev falls to the default Deny
C29_Witness ==
    /\ Evaluated
    /\ Classification = "restricted"
    /\ Role = "engineer" /\ MFAVerified
    /\ Environment = "dev" /\ Verb = "read"
    /\ Decision.Effect = EffectDeny
    /\ Len(Steps) = 5


----------------------------------------------------------------------------
(* Each built-in policy and each built-in rule on its own, asked about      *)
(* requests and resources whose string fields go beyond the values the      *)
(* built-ins compare with                                                   *)

AnyContexts ==
    { RequestContext(role, class, 1, verb, env, mfa) :
        role \in Roles,
        class \in {"public", "restricted", "", "top-secret"},
        verb \in {"read", "write", "delete", "frobnicate"},
        env \in {"production", "staging", "dev", "qa"},
        mfa \in BOOLEAN }

AnyResources ==
    { Resource("r1", t, c, a) :
        t \in {"database", "secret", "blob"},
        c \in {"public", "restricted", "", "top-secret"},
        a \in {0, 2} }

InitBuiltins ==
    /\ \/ /\ \E p \in {DefaultPolicies[i] : i \in 1..Len(DefaultPolicies)} :
                /\ policies = RegisterPolicy(<<>>, p)
                /\ registered = <<p>>
          /\ rules = <<>>
          /\ added = <<>>
       \/ /\ policies = <<>>
          /\ registered = <<>>
          /\ \E r \in {DefaultRules[i] : i \in 1..Len(DefaultRules)} :
                /\ rules = AddRule(<<>>, r)
                /\ added = Given("AddRule", "", <<r>>)
    /\ result = <<>>
    /\ invoked = <<>>
    /\ report = <<>>
    /\ checked = <<>>
    /\ bundles = <<>>
    /\ hostCtx = RequestContext("guest", "public", 1, "read", "dev", FALSE)
    /\ heap = CheckerHeap
    /\ NoCombinator /\ NoThreads

DoEvaluateBuiltin == policies # <<>> /\ \E ctx \in AnyContexts : EvaluateCall(ctx)

DoCheckBuiltin == rules # <<>> /\ \E resource \in AnyResources : CheckerEvaluateCall(resource)

NextBuiltins == DoEvaluateBuiltin \/ DoCheckBuiltin

SpecBuiltins == InitBuiltins /\ [][NextBuiltins]_vars


\* the values the built-ins recognize, per field
Recognized(f) ==
    CASE f = "role"           -> {"admin", "engineer", "analyst", "guest"}
      [] f = "type"           -> {"database", "storage", "compute", "secret"}
      [] f = "classification" -> {"public", "internal", "confidential", "restricted"}
      [] f = "verb"           -> {"read", "write", "delete", "execute"}
      [] f = "environment"    -> {"production", "staging", "dev"}

\* the value of field f in the request the engine, or the resource the
\* checker, was asked about
Field(f) ==
    CASE f = "role"           -> hostCtx.Principal.Role
      [] f = "type"           -> hostCtx.Resource.Type
      [] f = "classification" -> hostCtx.Resource.Classification
      [] f = "verb"           -> hostCtx.Action.Verb
      [] f = "environment"    -> hostCtx.Environment

Unrecognized(f) == Field(f) \notin Recognized(f)

\* the fields a built-in policy or rule compares with specific values
Tests(name) ==
    CASE name = "AdminFullAccess"           -> {"role"}
      [] name = "MFARequiredForRestricted"  -> {"classification"}
      [] name = "ProductionImmutability"    -> {"environment", "verb", "role"}
      [] name = "AnalystReadOnly"           -> {"role", "verb", "classification"}
      [] name = "EngineerAccess"            -> {"role", "classification", "environment", "verb"}
      [] name = "RequiresOwnerTag"          -> {}
      [] name = "SecretsNotPublic"          -> {"type", "classification"}
      [] name = "DatabasesMustBeRestricted" -> {"type", "classification"}
      [] name = "NoUnclassifiedResources"   -> {"classification"}

\* the fields whose match is necessary for the built-in to decide or to fail
Requires(name) ==
    CASE name = "AdminFullAccess"           -> {"role"}
      [] name = "MFARequiredForRestricted"  -> {"classification"}
      [] name = "ProductionImmutability"    -> {"environment", "verb"}
      [] name = "AnalystReadOnly"           -> {"role"}
      [] name = "EngineerAccess"            -> {"role", "environment"}
      [] name = "RequiresOwnerTag"          -> {}
      [] name = "SecretsNotPublic"          -> {"type", "classification"}
      [] name = "DatabasesMustBeRestricted" -> {"type"}
      [] name = "NoUnclassifiedResources"   -> {}

Alone == Evaluated /\ Len(policies) = 1
AloneRule == Reported /\ Len(rules) = 1

\* C23 (as claimed): for a request or resource whose role, type,
\* classification, verb or environment is outside the recognized values,
\* every built-in policy that tests that field for a specific value abstains
\* and every built-in rule that tests that field for a specific value passes.
C23_UnrecognizedAbstainsOrPasses ==
    /\ Alone =>
           \A f \in Tests(policies[1].Name) :
               Unrecognized(f) => Steps[1].Outcome = StepAbstain
    /\ AloneRule =>
           \A f \in Tests(rules[1].Name) :
               Unrecognized(f) => Report.Violations = <<>>

\* C23 (amended): a built-in abstains (a rule passes) on an unrecognized value
\* of a field whose match it requires: the role for AdminFullAccess,
\* AnalystReadOnly and EngineerAccess, the classification for
\* MFARequiredForRestricted, the environment and the verb for
\* ProductionImmutability, the environment for EngineerAccess, the type and
\* the classification for SecretsNotPublic, the type for
\* DatabasesMustBeRestricted.  A field tested as an exception is different:
\* ProductionImmutability denies a production write or delete by an
\* unrecognized role;
\* AnalystReadOnly denies an analyst's unrecognized verb and allows an
\* analyst's read of a resource of unrecognized classification;
\* EngineerAccess allows an engineer in dev or staging on a resource of
\* unrecognized classification, whatever the verb; DatabasesMustBeRestricted fails on a
\* database of unrecognized classification; NoUnclassifiedResources fails on
\* the empty classification and passes on every other one.
C23_UnrecognizedAmended ==
    /\ Alone =>
           LET name == policies[1].Name
               outcome == Steps[1].Outcome
           IN  /\ \A f \in Requires(name) : Unrecognized(f) => outcome = StepAbstain
               /\ (name = "ProductionImmutability" /\ Unrecognized("role")
                       /\ Field("environment") = "production"
                       /\ Field("verb") \in {"write", "delete"})
                      => outcome = StepDeny
               /\ (name = "AnalystReadOnly" /\ Field("role") = "analyst")
                      => /\ Unrecognized("verb") => outcome = StepDeny
                         /\ (Field("verb") = "read" /\ Unrecognized("classification"))
                                => outcome = StepAllow
               /\ (name = "EngineerAccess" /\ Field("role") = "engineer"
                       /\ Field("environment") \in {"dev", "staging"})
                      => /\ Unrecognized("classification") => outcome = StepAllow
                         /\ (Unrecognized("verb") /\ Field("classification") # "restricted")
                                => outcome = StepAllow
    /\ AloneRule =>
           LET name == rules[1].Name
           IN  /\ \A f \in Requires(name) : Unrecognized(f) => Report.Violations = <<>>
               /\ (name = "DatabasesMustBeRestricted" /\ Field("type") = "database"
                       /\ Unrecognized("classification"))
                      => Len(Report.Violations) = 1
               /\ name = "NoUnclassifiedResources"
                      => ((Report.Violations = <<>>) <=> (Field("classification") # ""))

\* an unrecognized role writing in production is denied by ProductionImmutability
C23_Witness ==
    /\ Alone
    /\ policies[1].Name = "ProductionImmutability"
    /\ Field("role") = "intern"
    /\ Field("environment") = "production" /\ Field("verb") = "write"
    /\ Steps[1].Outcome = StepDeny
    /\ Decision.PolicyName = "ProductionImmutability"


\* the orders in which the rules with indices in S can be registered
RECURSIVE Orders(_)
Orders(S) ==
    IF S = {} THEN {<<>>}
    ELSE UNION {{<<x>> \o o : o \in Orders(S \ {x})} : x \in S}

\* a checker given the present checker's rules by AddRule in the order o
Reordered(o) == AddEach(<<>>, [i \in 1..Len(o) |-> rules[o[i]]], 1)

\* the number of entries of s equal to v
Count(s, v) == Cardinality({i \in 1..Len(s) : s[i] = v})

\* C24: the registration order of compliance rules affects only the order of
\* the violation entries: for every resource, two checkers holding the same
\* rules in different registration orders report the same violation strings
\* with the same multiplicities.
C24_OrderOnlyPermutesViolations ==
    Reported =>
        \A o \in Orders(1..Len(rules)) :
            LET other == CheckerEvaluate(Reordered(o), AskedResource, heap).Violations
            IN  /\ Len(other) = Len(Report.Violations)
                /\ \A k \in 1..Len(other) :
                       Count(other, other[k]) = Count(Report.Violations, other[k])

\* two different violations, which the reverse registration order reports reversed
C24_Witness ==
    /\ Reported
    /\ Len(rules) = 3
    /\ Len(Report.Violations) = 2
    /\ Report.Violations[1] # Report.Violations[2]
    /\ CheckerEvaluate(Reordered(<<3, 2, 1>>), AskedResource, heap).Violations
           = <<Report.Violations[2], Report.Violations[1]>>


\* an engine given the policies ps by RegisterPolicy, one after the other
RECURSIVE RegisterEach(_, _, _)
RegisterEach(e, ps, i) ==
    IF i > Len(ps) THEN e ELSE RegisterEach(RegisterPolicy(e, ps[i]), ps, i + 1)

\* C28: the effect Evaluate returns does not depend on registration order or
\* on priorities: an engine given the same policies in another order, or with
\* other Priority values, returns the same effect for the same context.
C28_EffectIndependentOfOrder ==
    Evaluated =>
        \A o \in Orders(1..Len(registered)) :
            \A pr \in [1..Len(registered) -> Priorities] :
                LET other == RegisterEach(<<>>,
                                 [i \in 1..Len(o) |->
                                     [registered[o[i]] EXCEPT !.Priority = pr[i]]], 1)
                IN  Evaluate(other, AskedCtx).Decision.Effect = Decision.Effect


----------------------------------------------------------------------------
(* An engine built from built-in policies, When-wrapped policies and        *)
(* combinators                                                              *)

Staff == AnyOf("Staff", <<AdminFullAccess, EngineerAccess, AnalystReadOnly>>)

ComposedPolicies ==
    { AdminFullAccess, MFARequiredForRestricted, EngineerAccess,
      When(InEnvironment({"production"}), ProductionImmutability),
      Staff,
      AllOf("AdminWithMFA", <<AdminFullAccess, MFARequiredForRestricted>>),
      [NoneOf("NoAnalysts", <<AnalystReadOnly>>) EXCEPT !.Priority = 1],
      When(ForRole({"engineer", "analyst"}), [Staff EXCEPT !.Priority = -1]),
      AllOf("default", <<AdminFullAccess>>) }

ComposedContexts ==
    { RequestContext("admin", "restricted", 1, "read", "production", FALSE),
      RequestContext("admin", "restricted", 1, "write", "production", TRUE),
      RequestContext("engineer", "internal", 1, "write", "production", TRUE),
      RequestContext("engineer", "internal", 1, "write", "dev", FALSE),
      RequestContext("analyst", "public", 1, "read", "production", FALSE),
      RequestContext("analyst", "public", 1, "write", "dev", FALSE),
      RequestContext("guest", "public", 1, "read", "dev", FALSE) }

InitComposed == Init

DoRegisterComposed ==
    \E p \in ComposedPolicies :
        /\ Len(policies) < MaxPolicies
        /\ policies' = RegisterPolicy(policies, p)
        /\ registered' = Append(registered, p)
        /\ result' = <<>>
        /\ invoked' = <<>>
        /\ UNCHANGED <<hostCtx, heap, checkerVars, comb, threads>>

DoEvaluateComposed == \E ctx \in ComposedContexts : EvaluateCall(ctx)

NextComposed == DoRegisterComposed \/ DoEvaluateComposed

SpecComposed == InitComposed /\ [][NextComposed]_vars

\* the first Allow step of the returned trace
FirstAllowStep == Steps[Earliest({i \in 1..Len(Steps) : Steps[i].Outcome = StepAllow})]

\* the returned decision agrees with the returned trace
Consistent ==
    /\ Decision.PolicyName = "default" =>
           \A i \in 1..Len(Steps) : Steps[i].Outcome = StepAbstain
    /\ (Decision.Effect = EffectDeny /\ Decision.PolicyName # "default") =>
           /\ Len(Steps) > 0
           /\ Steps[Len(Steps)] = PolicyStep(Decision.PolicyName, StepDeny, Decision.Reason)
    /\ Decision.Effect = EffectAllow =>
           /\ \A i \in 1..Len(Steps) : Steps[i].Outcome # StepDeny
           /\ \E i \in 1..Len(Steps) : Steps[i].Outcome = StepAllow
           /\ FirstAllowStep.PolicyName = Decision.PolicyName
           /\ FirstAllowStep.Reason = Decision.Reason

\* C27 (as claimed): for an engine built from built-in policies, When-wrapped
\* policies and combinators, the returned decision is consistent with the
\* returned trace: the name "default" means every step is Abstain; a Deny not
\* named "default" means the last step is a Deny step with that name and
\* reason; an Allow means no Deny step and a first Allow step with the
\* decision's name and reason.
C27_DecisionConsistentWithTrace == Evaluated => Consistent

\* C27 (amended): the same, for an engine none of whose policies is named
\* "default".
C27_ConsistentUnlessNamedDefault ==
    (Evaluated /\ \A i \in 1..Len(policies) : policies[i].Name # "default") => Consistent

\* an abstaining policy, then a combinator and a built-in that both allow
C27_Witness ==
    /\ Evaluated
    /\ \A i \in 1..Len(policies) : policies[i].Name # "default"
    /\ Len(Steps) = 3
    /\ Steps[1].Outcome = StepAbstain
    /\ Steps[2].Outcome = StepAllow /\ Steps[2].PolicyName = "Staff"
    /\ Steps[3].Outcome = StepAllow /\ Steps[3].PolicyName = "EngineerAccess"
    /\ Decision.PolicyName = "Staff"

----------------------------------------------------------------------------
(* Concurrent Evaluate calls on a finalized engine and a finalized checker.
   Each goroutine's call has a frame of its own: the index of the loop, the
   local trace or report, the recorded first Allow.  One step of a goroutine
   is one iteration of the loop over e.policies or c.rules, or the return
   after the loop.  Nothing registers a policy or adds a rule. *)

Goroutines == 1..MaxThreads

\* a goroutine that has not called yet
Idle ==
    [pc |-> "idle", op |-> "", arg |-> Nil, i |-> 0, steps |-> <<>>,
     firstAllow |-> Nil, violations |-> <<>>, ret |-> Nil, last |-> Nil]

FrameShared(c) == 1

\* trace := EvaluationTrace{Context: ctx}, report := ComplianceReport{...}:
\* locals of the call, so call c appends to the frame of call c
Frame(c) == c

BeginKeepsSteps(t, op, arg) ==
    [pc |-> "run", op |-> op, arg |-> arg, i |-> 1, steps |-> t.steps,
     firstAllow |-> Nil, violations |-> t.violations, ret |-> Nil,
     last |-> IF t.pc = "done" /\ t.op = op /\ t.arg = arg THEN t.ret ELSE Nil]

\* entry of Evaluate: fresh locals.  last remembers what the goroutine's
\* previous call returned when that call had the same operation and argument.
Begin(t, op, arg) ==
    [pc |-> "run", op |-> op, arg |-> arg, i |-> 1, steps |-> <<>>,
     firstAllow |-> Nil, violations |-> <<>>, ret |-> Nil,
     last |-> IF t.pc = "done" /\ t.op = op /\ t.arg = arg THEN t.ret ELSE Nil]

ConcurrentContexts ==
    {RequestContext("admin", "restricted", 1, "read", "production", FALSE),
     RequestContext("engineer", "internal", 1, "write", "dev", TRUE),
     RequestContext("guest", "public", 1, "read", "staging", FALSE)}

ConcurrentResources ==
    {Resource("db-1", "database", "public", 0),
     Resource("st-1", "storage", "restricted", 2)}

InitConcurrent ==
    /\ policies = DefaultPolicyEngine
    /\ registered = DefaultPolicies
    /\ result = <<>>
    /\ invoked = <<>>
    /\ hostCtx = RequestContext("guest", "public", 1, "read", "dev", FALSE)
    /\ heap = CheckerHeap
    /\ rules = DefaultComplianceChecker
    /\ report = <<>>
    /\ checked = <<>>
    /\ bundles = <<>>
    /\ added = Given("AddRule", "", DefaultRules)
    /\ NoCombinator
    /\ threads = [c \in Goroutines |-> Idle]

Finalized ==
    UNCHANGED <<policies, registered, result, invoked, hostCtx, heap,
                rules, report, checked, bundles, added, comb>>

\* go engine.Evaluate(ctx)
DoBeginEvaluate ==
    \E c \in Goroutines, ctx \in ConcurrentContexts :
        /\ threads[c].pc # "run"
        /\ threads' = [threads EXCEPT ![c] = Begin(threads[c], "Evaluate", ctx)]
        /\ Finalized

\* go checker.Evaluate(resource)
DoBeginCheck ==
    \E c \in Goroutines, resource \in ConcurrentResources :
        /\ threads[c].pc # "run"
        /\ threads' = [threads EXCEPT ![c] = Begin(threads[c], "Check", resource)]
        /\ Finalized

\* one iteration of: for _, policy := range e.policies
DoEngineIteration ==
    \E c \in Goroutines :
        LET t == threads[c]
            f == Frame(c)
        IN  /\ t.pc = "run" /\ t.op = "Evaluate" /\ t.i <= Len(policies)
            /\ LET policy   == policies[t.i]
                   decision == PolicyFn(policy.Evaluate, t.arg)
                   outcome  == IF decision = Nil THEN StepAbstain
                               ELSE IF IsDeny(decision) THEN StepDeny ELSE StepAllow
                   reason   == IF decision = Nil THEN "" ELSE decision[1].Reason
                   steps    == Append(threads[f].steps,
                                      PolicyStep(policy.Name, outcome, reason))
                   traced   == [threads EXCEPT ![f].steps = steps]
               IN  threads' =
                     IF outcome = StepDeny
                     THEN [traced EXCEPT
                             ![c].pc = "done",
                             ![c].ret = <<[Decision |-> decision[1],
                                           Trace |-> [Context |-> t.arg, Steps |-> steps]]>>]
                     ELSE [traced EXCEPT
                             ![c].i = t.i + 1,
                             ![c].firstAllow =
                                 IF decision = Nil THEN t.firstAllow
                                 ELSE KeepFirstAllow(t.firstAllow, decision)]
            /\ Finalized

\* after the loop: the first Allow, or the default Deny, with the trace
DoEngineReturn ==
    \E c \in Goroutines :
        LET t == threads[c]
        IN  /\ t.pc = "run" /\ t.op = "Evaluate" /\ t.i > Len(policies)
            /\ threads' = [threads EXCEPT
                   ![c].pc = "done",
                   ![c].ret = <<[Decision |-> IF t.firstAllow # Nil THEN t.firstAllow[1]
                                              ELSE DefaultDeny,
                                 Trace |-> [Context |-> t.arg,
                                            Steps |-> threads[Frame(c)].steps]]>>]
            /\ Finalized

\* one iteration of: for _, rule := range c.rules
DoCheckIteration ==
    \E c \in Goroutines :
        LET t == threads[c]
            f == Frame(c)
        IN  /\ t.pc = "run" /\ t.op = "Check" /\ t.i <= Len(rules)
            /\ LET rule == rules[t.i]
                   violations == IF ~RuleCheck(rule.Check, t.arg, heap)
                                 THEN Append(threads[f].violations, Violation(rule))
                                 ELSE threads[f].violations
                   reported == [threads EXCEPT ![f].violations = violations]
               IN  threads' = [reported EXCEPT ![c].i = t.i + 1]
            /\ Finalized

\* return report
DoCheckReturn ==
    \E c \in Goroutines :
        LET t == threads[c]
        IN  /\ t.pc = "run" /\ t.op = "Check" /\ t.i > Len(rules)
            /\ threads' = [threads EXCEPT
                   ![c].pc = "done",
                   ![c].ret = <<[ResourceID |-> t.arg.ID,
                                 Violations |-> threads[Frame(c)].violations]>>]
            /\ Finalized

NextConcurrent ==
    \/ DoBeginEvaluate
    \/ DoBeginCheck
    \/ DoEngineIteration
    \/ DoEngineReturn
    \/ DoCheckIteration
    \/ DoCheckReturn

SpecConcurrent == InitConcurrent /\ [][NextConcurrent]_vars

\* what the call of goroutine c returns when it runs alone
RunAlone(t) ==
    IF t.op = "Evaluate"
    THEN LET r == Evaluate(policies, t.arg)
         IN  [Decision |-> r.Decision, Trace |-> r.Trace]
    ELSE LET r == CheckerEvaluate(rules, t.arg, heap)
         IN  [ResourceID |-> r.ResourceID, Violations |-> r.Violations]

HasReturned(c) == threads[c].pc = "done"

\* C21: a call of Evaluate, on the engine or on the checker, that follows a
\* call with the same context or resource, with no registration in between,
\* returns what the earlier call returned: the same decision and the same
\* trace steps, or the same violations.  The same holds of two goroutines'
\* calls with the same argument.
C21_Idempotent ==
    /\ \A c \in Goroutines :
           HasReturned(c) /\ threads[c].last # Nil => threads[c].ret = threads[c].last
    /\ \A c, d \in Goroutines :
           /\ HasReturned(c) /\ HasReturned(d)
           /\ threads[c].op = threads[d].op
           /\ threads[c].arg = threads[d].arg
           => threads[c].ret = threads[d].ret

C21_Witness ==
    \E c, d \in Goroutines :
        /\ c # d
        /\ HasReturned(c) /\ threads[c].op = "Evaluate" /\ threads[c].last # Nil
        /\ Len(threads[c].ret[1].Trace.Steps) > 1
        /\ HasReturned(d) /\ threads[d].op = "Check" /\ threads[d].last # Nil
        /\ Len(threads[d].ret[1].Violations) > 0

\* C22: in every interleaving of concurrent Evaluate calls on a finalized
\* engine and checker, the policy and rule sequences are never modified, a
\* step changes the frame of one call only (no call writes to the trace or
\* report of another), and each call returns what it returns when run alone.
C22_ConcurrentEvaluateSafe ==
    /\ [](\A c \in Goroutines : HasReturned(c) => threads[c].ret[1] = RunAlone(threads[c]))
    /\ [][/\ policies' = policies
          /\ rules' = rules
          /\ \A c, d \in Goroutines :
                 c # d => threads'[c] = threads[c] \/ threads'[d] = threads[d]]_vars

C22_Witness ==
    \E c, d \in Goroutines :
        /\ c # d
        /\ HasReturned(c) /\ threads[c].op = "Evaluate"
        /\ threads[d].pc = "run" /\ threads[d].op = "Evaluate"
        /\ threads[d].arg # threads[c].arg
        /\ threads[d].i > 1 /\ threads[d].steps # <<>>
        /\ Len(threads[c].ret[1].Trace.Steps) > 1

====
